---- MODULE Spec2Model ----
(***************************************************************************)
(* A model of phosphor-splitpanel (src/src/index.ts): the SplitLayout      *)
(* child bookkeeping (attachChild / moveChild / detachChild), the Fit and  *)
(* Update passes, moveHandle, sizes / setSizes, the SplitPanel mouse       *)
(* handling, and the pure helpers growSizer, shrinkSizer, normalize,       *)
(* createSizer and averageSize.                                            *)
(*                                                                         *)
(* The file keeps the sizers, the handles and the pending flag in the      *)
(* private fields _sizers, _handles and _pendingSizes (802-805), which     *)
(* only sizes() and setSizes() use.  Every other method reads them with    *)
(* SplitLayoutPrivate.sizersProperty, handlesProperty and                  *)
(* pendingSizesProperty, names the file defines nowhere: the read throws   *)
(* (a TypeError for SplitLayoutPrivate.x.get(..), x being undefined, a     *)
(* ReferenceError for the bare name inside the namespace).  The model      *)
(* follows each method up to that read and records the exception in        *)
(* `last.threw`.                                                           *)
(*                                                                         *)
(* Numbers.  JavaScript numbers are modelled as exact rationals <<n, d>>   *)
(* in lowest terms with d > 0; Infinity is <<1, 0>>.  Indices are 0-based  *)
(* as in the source; sequences are 1-based, so sizers[i] of the source is  *)
(* sizers[i + 1] here.                                                     *)
(***************************************************************************)
EXTENDS Integers, Sequences, FiniteSets, TLC

(***************************************************************************)
(* Bounds of the model.                                                    *)
(***************************************************************************)
MaxLen == 3
MaxDelta == 4
MaxOps == 4

(***************************************************************************)
(* Numbers.                                                                *)
(***************************************************************************)
Abs(n) == IF n < 0 THEN -n ELSE n

RECURSIVE GCD(_, _)
GCD(a, b) == IF b = 0 THEN a ELSE GCD(b, a % b)

Infinity == <<1, 0>>

Norm(n, d) ==
  LET g == GCD(Abs(n), Abs(d))
      s == IF d < 0 THEN -1 ELSE 1
  IN  IF n = 0 THEN <<0, 1>> ELSE <<s * (n \div g), s * (d \div g)>>

Q(n) == <<n, 1>>

Zero == <<0, 1>>

IsFinite(a) == a[2] # 0

Add(a, b) ==
  IF a = Infinity \/ b = Infinity THEN Infinity
  ELSE Norm(a[1] * b[2] + b[1] * a[2], a[2] * b[2])

Sub(a, b) ==
  IF a = Infinity THEN Infinity
  ELSE Norm(a[1] * b[2] - b[1] * a[2], a[2] * b[2])

Mul(a, b) ==
  IF a = Infinity \/ b = Infinity THEN Infinity
  ELSE Norm(a[1] * b[1], a[2] * b[2])

Div(a, b) == Norm(a[1] * b[2], a[2] * b[1])

Lt(a, b) ==
  /\ a # Infinity
  /\ \/ b = Infinity
     \/ a[1] * b[2] < b[1] * a[2]

Le(a, b) == a = b \/ Lt(a, b)

Gt(a, b) == Lt(b, a)

Ge(a, b) == Le(b, a)

MathMin(a, b) == IF Lt(b, a) THEN b ELSE a

MathMax(a, b) == IF Lt(a, b) THEN b ELSE a

Neg(a) == Sub(Zero, a)

(***************************************************************************)
(* BoxSizer: the record phosphor-boxengine's BoxSizer holds, plus `id`,    *)
(* the identity of the object (compared with === in the source).           *)
(***************************************************************************)
BoxSizer(id) ==
  [id |-> id, sizeHint |-> Zero, minSize |-> Zero, maxSize |-> Infinity,
   stretch |-> 1, size |-> Zero]

RECURSIVE SumGrowRoom(_, _, _)
\* The sum of maxSize - size over the 1-based positions lo..hi, added in
\* index order as the growLimit loops do.
SumGrowRoom(sizers, lo, hi) ==
  IF lo > hi THEN Zero
  ELSE Add(SumGrowRoom(sizers, lo, hi - 1),
           Sub(sizers[hi].maxSize, sizers[hi].size))

RECURSIVE SumShrinkRoom(_, _, _)
\* The sum of size - minSize over the 1-based positions lo..hi.
SumShrinkRoom(sizers, lo, hi) ==
  IF lo > hi THEN Zero
  ELSE Add(SumShrinkRoom(sizers, lo, hi - 1),
           Sub(sizers[hi].size, sizers[hi].minSize))

\* The raising loop without the test of the sizer's limit.
GrowWalkNoLimit(sizers, i, step, grow) ==
  IF i < 1 \/ i > Len(sizers) \/ ~Gt(grow, Zero) THEN sizers
  ELSE [sizers EXCEPT ![i].sizeHint = Add(sizers[i].size, grow)]

RECURSIVE GrowWalk(_, _, _, _)
\* The loop `for (i = start; in range && grow > 0; i += step)` of growSizer
\* and shrinkSizer that raises sizeHint; i is the 1-based position.
GrowWalk(sizers, i, step, grow) ==
  IF i < 1 \/ i > Len(sizers) \/ ~Gt(grow, Zero) THEN sizers
  ELSE LET sizer == sizers[i]
           limit == Sub(sizer.maxSize, sizer.size)
       IN  IF Ge(limit, grow)
           THEN [sizers EXCEPT ![i].sizeHint = Add(sizer.size, grow)]
           ELSE GrowWalk([sizers EXCEPT ![i].sizeHint = Add(sizer.size, limit)],
                         i + step, step, Sub(grow, limit))

RECURSIVE ShrinkWalk(_, _, _, _)
\* The loop of growSizer and shrinkSizer that lowers sizeHint.
ShrinkWalk(sizers, i, step, shrink) ==
  IF i < 1 \/ i > Len(sizers) \/ ~Gt(shrink, Zero) THEN sizers
  ELSE LET sizer == sizers[i]
           limit == Sub(sizer.size, sizer.minSize)
       IN  IF Ge(limit, shrink)
           THEN [sizers EXCEPT ![i].sizeHint = Sub(sizer.size, shrink)]
           ELSE ShrinkWalk([sizers EXCEPT ![i].sizeHint = Sub(sizer.size, limit)],
                           i + step, step, Sub(shrink, limit))

\* growClamp without the shrink limit: Math.min(delta, growLimit).
growClampNoShrinkLimit(sizers, index, delta) ==
  MathMin(delta, SumGrowRoom(sizers, 1, index + 1))

\* Math.min(delta, growLimit, shrinkLimit) of growSizer (index is 0-based).
growClamp(sizers, index, delta) ==
  LET growLimit == SumGrowRoom(sizers, 1, index + 1)
      shrinkLimit == SumShrinkRoom(sizers, index + 2, Len(sizers))
  IN  MathMin(MathMin(delta, growLimit), shrinkLimit)

\* growSizer with `let shrink = delta` read before delta is clamped.
growSizerShrinkRaw(sizers, index, delta) ==
  ShrinkWalk(GrowWalk(sizers, index + 1, -1, growClamp(sizers, index, delta)),
             index + 2, 1, delta)

\* growSizer with the lowering loop started at the last sizer.
growSizerShrinkFarFirst(sizers, index, delta) ==
  LET d == growClamp(sizers, index, delta)
  IN  ShrinkWalk(GrowWalk(sizers, index + 1, -1, d), Len(sizers), -1, d)

\* growSizer(sizers, index, delta): grow the sizers at and left of index.
growSizer(sizers, index, delta) ==
  LET d == growClamp(sizers, index, delta)
  IN  ShrinkWalk(GrowWalk(sizers, index + 1, -1, d), index + 2, 1, d)

\* Math.min(delta, growLimit, shrinkLimit) of shrinkSizer.
shrinkClamp(sizers, index, delta) ==
  LET growLimit == SumGrowRoom(sizers, index + 2, Len(sizers))
      shrinkLimit == SumShrinkRoom(sizers, 1, index + 1)
  IN  MathMin(MathMin(delta, growLimit), shrinkLimit)

\* shrinkSizer with the raising loop started at the last sizer.
shrinkSizerGrowFarFirst(sizers, index, delta) ==
  LET d == shrinkClamp(sizers, index, delta)
  IN  ShrinkWalk(GrowWalk(sizers, Len(sizers), -1, d), index + 1, -1, d)

\* shrinkSizer(sizers, index, delta): shrink the sizers at and left of index.
shrinkSizer(sizers, index, delta) ==
  LET d == shrinkClamp(sizers, index, delta)
  IN  ShrinkWalk(GrowWalk(sizers, index + 2, 1, d), index + 1, -1, d)

(***************************************************************************)
(* boxCalc(sizers, space) of phosphor-boxengine, the distribution          *)
(* algorithm of the specification's section 4.2: clamp every hint into     *)
(* its bounds, then hand the missing or surplus space first to the sizers  *)
(* with a positive stretch, in proportion to it, then evenly to the rest,  *)
(* never past a sizer's bound.  It writes only `size`.                     *)
(***************************************************************************)
nearZero == <<1, 100>>

\* initSizer: size := max(minSize, min(sizeHint, maxSize)).
initSizer(sizer) ==
  [sizer EXCEPT !.size = MathMax(sizer.minSize,
                                 MathMin(sizer.sizeHint, sizer.maxSize))]

RECURSIVE SumField(_, _, _)
\* The sum of field f over the first n sizers.
SumField(sizers, n, f) ==
  IF n = 0 THEN Zero ELSE Add(SumField(sizers, n - 1, f), sizers[n][f])

TotalSize(sizers) == SumField(sizers, Len(sizers), "size")

TotalMin(sizers) == SumField(sizers, Len(sizers), "minSize")

TotalMax(sizers) == SumField(sizers, Len(sizers), "maxSize")

TotalHint(sizers) == SumField(sizers, Len(sizers), "sizeHint")

RECURSIVE TotalStretch(_, _)
TotalStretch(sizers, n) ==
  IF n = 0 THEN 0 ELSE TotalStretch(sizers, n - 1) + sizers[n].stretch

\* One sizer's step of a distribution pass.  st is the loop state
\* [sizers, done, freeSpace, totalStretch, stretchCount, notDoneCount];
\* grow tells the sign of the distributed space, byStretch the phase.
BoxStep(st, i, grow, byStretch, amt) ==
  LET sizer == st.sizers[i]
      hit == IF grow THEN Ge(Add(sizer.size, amt), sizer.maxSize)
             ELSE Le(Sub(sizer.size, amt), sizer.minSize)
      room == IF grow THEN Sub(sizer.maxSize, sizer.size)
              ELSE Sub(sizer.size, sizer.minSize)
  IN  IF hit
      THEN [st EXCEPT
              !.freeSpace = Sub(st.freeSpace, room),
              !.totalStretch = IF byStretch THEN @ - sizer.stretch ELSE @,
              !.stretchCount = IF byStretch THEN @ - 1 ELSE @,
              !.sizers[i].size = IF grow THEN sizer.maxSize ELSE sizer.minSize,
              !.done[i] = TRUE,
              !.notDoneCount = @ - 1]
      ELSE [st EXCEPT
              !.freeSpace = Sub(st.freeSpace, amt),
              !.sizers[i].size = IF grow THEN Add(sizer.size, amt)
                                 ELSE Sub(sizer.size, amt)]

RECURSIVE BoxPass(_, _, _, _, _, _)
\* The `for` loop of one pass over the sizers from position i on.  In the
\* stretch phase amt is stretch * distSpace / distStretch, in the even
\* phase it is distSpace / distStretch with distStretch the notDoneCount.
BoxPass(st, i, grow, byStretch, distSpace, distStretch) ==
  IF i > Len(st.sizers) THEN st
  ELSE LET sizer == st.sizers[i]
           skip == st.done[i] \/ (byStretch /\ sizer.stretch = 0)
           amt == IF byStretch
                  THEN Div(Mul(Q(sizer.stretch), distSpace), Q(distStretch))
                  ELSE Div(distSpace, Q(distStretch))
       IN  BoxPass(IF skip THEN st ELSE BoxStep(st, i, grow, byStretch, amt),
                   i + 1, grow, byStretch, distSpace, distStretch)

RECURSIVE BoxLoop(_, _, _)
\* The `while (count > 0 && freeSpace > nearZero)` loop of one phase.
BoxLoop(st, grow, byStretch) ==
  LET count == IF byStretch THEN st.stretchCount ELSE st.notDoneCount
  IN  IF count > 0 /\ Gt(st.freeSpace, nearZero)
      THEN BoxLoop(BoxPass(st, 1, grow, byStretch, st.freeSpace,
                           IF byStretch THEN st.totalStretch
                           ELSE st.notDoneCount),
                   grow, byStretch)
      ELSE st

boxCalc(sizers, space) ==
  LET count == Len(sizers)
      inited == [i \in 1..count |-> initSizer(sizers[i])]
      totalSize == TotalSize(inited)
      totalMin == TotalMin(inited)
      totalMax == TotalMax(inited)
      grow == ~Lt(space, totalSize)
      st0 == [sizers |-> inited,
              done |-> [i \in 1..count |-> FALSE],
              freeSpace |-> IF grow THEN Sub(space, totalSize)
                            ELSE Sub(totalSize, space),
              totalStretch |-> TotalStretch(inited, count),
              stretchCount |-> Cardinality({i \in 1..count :
                                              inited[i].stretch > 0}),
              notDoneCount |-> count]
  IN  IF count = 0 THEN sizers
      ELSE IF space = totalSize THEN inited
      ELSE IF Le(space, totalMin)
           THEN [i \in 1..count |-> [inited[i] EXCEPT !.size = inited[i].minSize]]
      ELSE IF Ge(space, totalMax)
           THEN [i \in 1..count |-> [inited[i] EXCEPT !.size = inited[i].maxSize]]
      ELSE BoxLoop(BoxLoop(st0, grow, TRUE), grow, FALSE).sizers

(***************************************************************************)
(* State.                                                                  *)
(***************************************************************************)
VARIABLES
  children,     \* PanelLayout's child widgets, in order (widget ids)
  isHidden,     \* widget.isHidden of every widget; widget 0 is the panel
  _sizers,      \* SplitLayout._sizers
  _handles,     \* SplitLayout._handles
  _pendingSizes, \* SplitLayout._pendingSizes
  _factory,     \* SplitLayout._factory
  fixedSpace,   \* fixedSpaceProperty
  orientation,  \* orientationProperty
  spacing,      \* spacingProperty
  stretch,      \* the stretchProperty value attached to every widget
  IsIE,         \* SplitLayoutPrivate.IsIE: the user agent is Trident
  isAttached,   \* parent.isAttached
  offsetWidth,  \* parent.node.offsetWidth
  offsetHeight, \* parent.node.offsetHeight
  posted,       \* the messages posted to the panel and not yet processed
  style,        \* parent.node.style: the panel's size constraints
  rect,         \* rectProperty: the geometry setGeometry gave each widget
  widgetParent, \* for every widget: widget.parent is the panel
  classes,      \* the class names on the panel's node
  nodeListeners, \* the event types the panel listens to on its own node
  pressData,    \* SplitPanel._pressData
  listeners,    \* the event types the panel listens to on the document
  overrides,    \* the cursor overrides not yet disposed
  isDisposed,   \* panel.isDisposed
  steps,        \* the number of operations the host program has made
  sizers,       \* the BoxSizer[] handed to growSizer / shrinkSizer / boxCalc
  last          \* history: the operation that produced this state

layoutVars == <<children, isHidden, fixedSpace, orientation, spacing,
                isAttached, offsetWidth, offsetHeight, posted, style, rect,
                classes, widgetParent>>

privateVars == <<_sizers, _handles, _pendingSizes, _factory>>

propVars == <<IsIE, stretch>>

panelVars == <<nodeListeners, pressData, listeners, overrides, isDisposed>>

vars == <<layoutVars, privateVars, propVars, panelVars, steps, sizers, last>>

Horizontal == "Horizontal"

Vertical == "Vertical"

SPLIT_PANEL_CLASS == "p-SplitPanel"

HORIZONTAL_CLASS == "p-mod-horizontal"

VERTICAL_CLASS == "p-mod-vertical"

\* updateParentOrientation(layout): the panel's node carries the class of
\* the layout's orientation and not the other one.
updateParentOrientation(names, orient) ==
  (names \ {HORIZONTAL_CLASS, VERTICAL_CLASS})
    \cup {IF orient = Horizontal THEN HORIZONTAL_CLASS ELSE VERTICAL_CLASS}

\* The panel itself, as a widget id: isHidden[ThePanel] is parent.isHidden.
ThePanel == 0

\* The widgets that may become children of the panel.
Widgets == {1, 2, 3}

\* The three children of the resize fixture: child0, child1 and the hidden
\* child2.
FixtureWidgets == {4, 5, 6}

AllWidgets == {ThePanel} \cup Widgets \cup FixtureWidgets

\* _pressData = null.
NoPress == [pressed |-> FALSE]

\* The style of a node that no fit pass has written: every property is
\* the empty string, written as the empty sequence of characters.
NoStyle == [minWidth |-> <<>>, minHeight |-> <<>>, maxWidth |-> <<>>,
            maxHeight |-> <<>>]

\* NaN, written as the quotient 0 / 0.
NaN == <<0, 0>>

\* The rect rectProperty creates: { top: NaN, left: NaN, width: NaN,
\* height: NaN }.
NoRect == [top |-> NaN, left |-> NaN, width |-> NaN, height |-> NaN]

\* The host has given the third widget the stretch factor 1 (setStretch)
\* and left the default 0 on the others.
PropInit ==
  stretch = [w \in AllWidgets |-> IF w = 3 THEN 1 ELSE 0]

\* A layout and a panel as their constructors leave them.
PanelInit ==
  /\ _sizers = <<>>
  /\ _handles = <<>>
  /\ _pendingSizes = FALSE
  /\ _factory = "SplitPanel"
  /\ fixedSpace = 0
  /\ style = NoStyle
  /\ rect = [w \in AllWidgets |-> NoRect]
  /\ pressData = NoPress
  /\ listeners = {}
  /\ overrides = {}
  /\ isDisposed = FALSE

(***************************************************************************)
(* The collaborators of the layout.                                        *)
(***************************************************************************)
\* sizeLimits(widget.node): the limits the style sheet gives each widget.
sizeLimits(w) ==
  CASE w = 1 -> [minWidth |-> Q(0), maxWidth |-> Infinity,
                 minHeight |-> Q(0), maxHeight |-> Infinity]
    [] w = 2 -> [minWidth |-> Q(2), maxWidth |-> Q(6),
                 minHeight |-> Q(1), maxHeight |-> Q(4)]
    [] w = 3 -> [minWidth |-> Q(1), maxWidth |-> Q(3),
                 minHeight |-> Q(3), maxHeight |-> Infinity]
    [] w = 4 -> [minWidth |-> Q(30), maxWidth |-> Infinity,
                 minHeight |-> Q(0), maxHeight |-> Infinity]
    [] w = 5 -> [minWidth |-> Q(0), maxWidth |-> Infinity,
                 minHeight |-> Q(50), maxHeight |-> Infinity]
    [] OTHER -> [minWidth |-> Q(0), maxWidth |-> Infinity,
                 minHeight |-> Q(0), maxHeight |-> Infinity]

\* boxSizing(parent.node): the panel has no border and no padding.
boxSizing ==
  [paddingTop |-> Q(0), paddingLeft |-> Q(0),
   horizontalSum |-> Q(0), verticalSum |-> Q(0)]

\* The sizes the host gives the panel: <<offsetWidth, offsetHeight>>.
ContainerSizes == {<<6, 9>>, <<11, 4>>}

\* The positions a handle is asked to move to.
Positions == {3, 8}

\* arrays.insert(array, index, value), index 0-based and in range.
insert(array, index, value) ==
  SubSeq(array, 1, index) \o <<value>> \o SubSeq(array, index + 1, Len(array))

\* arrays.removeAt(array, index): the array without the element at index.
removeAt(array, index) ==
  SubSeq(array, 1, index) \o SubSeq(array, index + 2, Len(array))

\* arrays.move(array, fromIndex, toIndex).
move(array, fromIndex, toIndex) ==
  insert(removeAt(array, fromIndex), toIndex, array[fromIndex + 1])

\* postMessage(parent, msg) with Widget.compressMessage: a fit-request or
\* update-request is dropped when one of its type is already pending.
post(queue, type) ==
  IF \E i \in 1..Len(queue) : queue[i] = type THEN queue
  ELSE Append(queue, type)

\* parent.isVisible: the panel is attached and not hidden (it has no
\* parent of its own).
isVisible == isAttached /\ ~isHidden[ThePanel]

\* layout.parent, and panel.layout: the panel and its layout have each
\* other until the panel is disposed of.
parent == ~isDisposed

\* w is in the layout's list of children (PanelLayout._children).
inLayout(w) == \E i \in 1..Len(children) : children[i] = w

\* child.parent && child.parent.layout instanceof SplitLayout, and the
\* receiver of the child-shown / child-hidden message of a widget: the
\* widget's parent is the panel, and the panel has its layout.  A widget
\* whose removal from the layout threw is out of the list and still has
\* the panel as its parent.
isChild(w) == widgetParent[w] /\ parent

(***************************************************************************)
(* SplitLayoutPrivate.                                                     *)
(***************************************************************************)
\* value | 0 for a value assigned to a property.  A value is a rational
\* <<n, d>>, Infinity, or an integer hi * 2^16 + lo written <<hi, lo, "e16">>
\* with 0 <= lo < 2^16; the result is an integer of 32 bits.
int32(value) ==
  IF Len(value) = 3
  THEN LET h == value[1] % 65536
       IN  (IF h >= 32768 THEN h - 65536 ELSE h) * 65536 + value[2]
  ELSE IF value[2] = 0 THEN 0
  ELSE IF value[1] >= 0 THEN value[1] \div value[2]
  ELSE -((-value[1]) \div value[2])

\* coerce without the clamp at 0.
coerceNoClamp(value) == int32(value)

\* coerce: (owner, value) => Math.max(0, value | 0), of spacingProperty and
\* stretchProperty.
coerce(value) == IF int32(value) > 0 THEN int32(value) ELSE 0

\* x | 0 for a finite non-negative x: truncation to an integer.
ToInt32(x) == Q(x[1] \div x[2])

\* averageSize(sizers).
averageSize(szs) ==
  IF Len(szs) = 0 THEN Zero ELSE Div(TotalSize(szs), Q(Len(szs)))

\* createSizer(size).
createSizer(id, size) == [BoxSizer(id) EXCEPT !.sizeHint = ToInt32(size)]

RECURSIVE sumValues(_, _)
\* normalize: sum += values[i] for i < n.
sumValues(values, n) ==
  IF n = 0 THEN Zero ELSE Add(sumValues(values, n - 1), values[n])

\* normalize that divides every value by the length of the array.
normalizeByLength(values) ==
  LET n == Len(values)
  IN  IF n = 0 THEN <<>>
      ELSE [i \in 1..n |-> Div(values[i], Q(n))]

\* SplitLayoutPrivate.normalize(values): a new array.
normalize(values) ==
  LET n == Len(values)
      sum == sumValues(values, n)
  IN  IF n = 0 THEN <<>>
      ELSE IF sum = Zero THEN [i \in 1..n |-> Div(Q(1), Q(n))]
      ELSE [i \in 1..n |-> Div(values[i], sum)]

\* What a call leaves behind when it returns.
Returned == "none"

\* SplitLayoutPrivate.sizersProperty.get(this) and
\* SplitLayoutPrivate.handlesProperty.get(this) in the methods of
\* SplitLayout: the namespace has no such member, and reading `get` of
\* undefined throws.
privateProperty == "TypeError"

\* handlesProperty.get(layout), sizersProperty.get(layout) and
\* pendingSizesProperty.get(layout) inside the namespace: no such name is
\* declared, and the reference throws.
namespaceProperty == "ReferenceError"

\* SplitLayoutPrivate.fit(layout) for a layout installed on its panel: the
\* pass reads the orientation and then the handles, and throws there;
\* nothing is written before.
fit == namespaceProperty

\* SplitLayoutPrivate.update(layout, offsetWidth, offsetHeight) for a
\* layout with n children: it returns at once when there is none, and
\* otherwise measures the panel and throws at the read of the sizers,
\* before any sizer, handle or widget is touched.
update(n) == IF n = 0 THEN Returned ELSE namespaceProperty

\* layout.handleAt(index).
handleAt(index) == privateProperty

\* (this.layout as SplitLayout).childCount() in a panel that has been
\* disposed of: the panel has no layout, and the call on null throws.
noLayout == "TypeError"

\* The size vectors given to setSizes.
SizeVectors == {<<Q(1), Q(4)>>, <<Q(-1), Q(3)>>, <<Q(2)>>}

\* layout.sizes(): normalize(this._sizers.map(s => s.size)).
sizes == normalize([i \in 1..Len(_sizers) |-> _sizers[i].size])

\* The loop of setSizes with hint = normed[i] || 0 in place of
\* Math.max(0, normed[i] || 0).
setSizesNoClamp(own, normed) ==
  [i \in 1..Len(own) |->
     LET hint == IF i <= Len(normed) THEN normed[i] ELSE Zero
     IN  [own[i] EXCEPT !.sizeHint = hint, !.size = hint]]

\* The loop of setSizes over this._sizers.
setSizes(own, normed) ==
  [i \in 1..Len(own) |->
     LET hint == IF i <= Len(normed) THEN MathMax(Zero, normed[i]) ELSE Zero
     IN  [own[i] EXCEPT !.sizeHint = hint, !.size = hint]]

\* The six event types a drag captures on the document.
Captured ==
  {"mouseup", "mousemove", "keydown", "keyup", "keypress", "contextmenu"}

\* The panel's press data, its document listeners and the cursor overrides.
Panel ==
  [pressData |-> pressData, listeners |-> listeners, overrides |-> overrides]

\* _releaseMouse(): nothing without press data; otherwise the override is
\* disposed, the press data cleared and the document listeners removed.
releaseMouse(p) ==
  IF ~p.pressData.pressed THEN p
  ELSE [pressData |-> NoPress, listeners |-> p.listeners \ Captured,
        overrides |-> p.overrides \ {p.pressData.override}]

\* _findHandle(target) on a panel with n children: the loop asks the
\* layout for the handle of every child, and the first handleAt throws;
\* without a child the loop is empty and the result is -1.  A panel that
\* has been disposed of has no layout to ask.
findHandle(n) ==
  IF ~parent THEN noLayout
  ELSE IF n = 0 THEN Returned ELSE handleAt(0)

\* _evtMouseDown(event): any button but the left one is ignored before the
\* handle is looked up.
evtMouseDown(button, n) == IF button # 0 THEN Returned ELSE findHandle(n)

(***************************************************************************)
(* Spec: the panel, its layout and the operations of the host program.     *)
(***************************************************************************)
\* The end of fit(layout): a fit-request is sent to the panel's parent,
\* which the panel does not have, and an update-request to the panel.
fitMessages(threw) == IF threw = Returned THEN <<"update-request">> ELSE <<>>

\* The history of a step: the operation, its arguments, the exception that
\* ended it, the pass that was entered before the call returned and the
\* messages that pass sent, whether a property changed, the last vector
\* given to setSizes, and the queue, the children, the widgets' parents,
\* the sizers and the pending flag the step was made on, and whether the
\* layout had its panel then.
Did(op, arg, threw, pass, changed) ==
  [op |-> op, arg |-> arg, threw |-> threw, pass |-> pass,
   sent |-> IF pass = "fit" THEN fitMessages(threw) ELSE <<>>,
   changed |-> changed,
   given |-> IF op = "setSizes" THEN arg ELSE last.given,
   posted |-> posted, children |-> children,
   widgetParent |-> widgetParent, sizers |-> _sizers,
   pending |-> _pendingSizes,
   attached |-> isAttached, visible |-> isVisible, parent |-> parent]

\* The history before the first step.
NoStep(op, arg) ==
  [op |-> op, arg |-> arg, threw |-> Returned, pass |-> "none",
   sent |-> <<>>, changed |-> FALSE, given |-> <<>>, posted |-> <<>>,
   children |-> <<>>, widgetParent |-> [w \in AllWidgets |-> FALSE],
   sizers |-> <<>>, pending |-> FALSE, attached |-> FALSE,
   visible |-> FALSE, parent |-> TRUE]

Init ==
  /\ children = <<>>
  /\ widgetParent = [w \in AllWidgets |-> FALSE]
  /\ isHidden = [w \in AllWidgets |-> FALSE]
  /\ orientation = Horizontal
  /\ classes = updateParentOrientation({SPLIT_PANEL_CLASS}, orientation)
  /\ spacing = 3
  /\ isAttached = FALSE
  /\ offsetWidth = 0
  /\ offsetHeight = 0
  /\ posted = <<>>
  /\ nodeListeners = {}
  /\ IsIE \in BOOLEAN
  /\ PanelInit
  /\ PropInit
  /\ steps = 0
  /\ sizers = <<>>
  /\ last = NoStep("init", <<>>)

\* An operation of the host program: counted, and bounded by MaxOps.
Op == steps < MaxOps /\ steps' = steps + 1

\* Widget.attach(panel, host): the host gives the panel's node a size;
\* SplitPanel.onAfterAttach listens for mousedown on the node, and
\* SplitLayout.onAfterAttach calls parent.fit(), which posts a fit-request.
\* A panel that has been disposed of has no layout to tell.
Attach(w, h) ==
  /\ Op
  /\ ~isAttached
  /\ isAttached' = TRUE
  /\ offsetWidth' = w
  /\ offsetHeight' = h
  /\ nodeListeners' = nodeListeners \cup {"mousedown"}
  /\ posted' = IF parent THEN post(posted, "fit-request") ELSE posted
  /\ last' = Did("attach", <<w, h>>, Returned, "none",
                 TRUE)
  /\ UNCHANGED <<widgetParent, children, isHidden, fixedSpace, orientation, spacing,
                 style, rect, classes, privateVars, propVars, pressData, listeners,
                 overrides, isDisposed, sizers>>

\* Widget.detach(panel): SplitPanel.onBeforeDetach stops listening on the
\* node; a node out of the document has no size.
Detach ==
  /\ Op
  /\ isAttached
  /\ isAttached' = FALSE
  /\ offsetWidth' = 0
  /\ offsetHeight' = 0
  /\ nodeListeners' = nodeListeners \ {"mousedown"}
  /\ last' = Did("detach", <<>>, Returned, "none",
                 TRUE)
  /\ UNCHANGED <<widgetParent, children, isHidden, fixedSpace, orientation, spacing,
                 posted, style, rect, classes, privateVars, propVars, pressData,
                 listeners, overrides, isDisposed, sizers>>

\* layout.insertChild(index, w) for a new child: PanelLayout gives the
\* child the layout's parent as its parent, puts it in its list and, when
\* the layout has a parent, calls attachChild(index, w), which throws at
\* its first statement: no sizer, no handle, no node in the panel, no
\* fit-request.
AttachChild(index, w) ==
  /\ Op
  /\ Len(children) < MaxLen
  /\ \A i \in 1..Len(children) : children[i] # w
  /\ children' = insert(children, index, w)
  /\ widgetParent' = [widgetParent EXCEPT ![w] = parent]
  /\ last' = Did("attachChild", <<index, w>>,
                 IF parent THEN privateProperty ELSE Returned, "none",
                 TRUE)
  /\ UNCHANGED <<isHidden, fixedSpace, orientation, spacing, isAttached,
                 offsetWidth, offsetHeight, posted, style, rect, classes,
                 privateVars, propVars, panelVars, sizers>>

\* layout.insertChild(toIndex, w) for the child at fromIndex: PanelLayout
\* moves the child in its list and, when the layout has a parent, calls
\* moveChild, which throws at its first statement.
MoveChild(fromIndex, toIndex) ==
  /\ Op
  /\ fromIndex # toIndex
  /\ children' = move(children, fromIndex, toIndex)
  /\ last' = Did("moveChild", <<fromIndex, toIndex>>,
                 IF parent THEN privateProperty ELSE Returned, "none",
                 TRUE)
  /\ UNCHANGED <<widgetParent, isHidden, fixedSpace, orientation, spacing, isAttached,
                 offsetWidth, offsetHeight, posted, style, rect, classes,
                 privateVars, propVars, panelVars, sizers>>

\* The child at index leaves the layout: PanelLayout takes it out of its
\* list and, when the layout has a parent, calls detachChild, which throws
\* at its first statement, before the widget's parent is cleared: the
\* widget is out of the list and keeps its parent.
DetachChild(index) ==
  /\ Op
  /\ children' = removeAt(children, index)
  /\ last' = Did("detachChild", <<index>>,
                 IF parent THEN privateProperty ELSE Returned, "none",
                 TRUE)
  /\ UNCHANGED <<widgetParent, isHidden, fixedSpace, orientation, spacing, isAttached,
                 offsetWidth, offsetHeight, posted, style, rect, classes,
                 privateVars, propVars, panelVars, sizers>>

\* onChildShown / onChildHidden: if (SplitLayoutPrivate.IsIE) the
\* fit-request is sent to the parent, otherwise it is posted.
sendsFitRequest == IsIE

\* onFitRequest(msg): the fit pass runs when the panel is attached.
onFitRequest == IF isAttached THEN fit ELSE Returned

\* onUpdateRequest(msg) and onResize(msg): the update pass runs when the
\* panel is visible.
onUpdateRequest == IF isVisible THEN update(Len(children)) ELSE Returned

\* w.hide() / w.show() for a widget other than the panel.  The widget's
\* parent is told, whether or not the widget is in the layout's list:
\* onChildHidden / onChildShown post a fit-request (parent.fit()), except
\* in Internet Explorer, where they send it and the fit pass is entered
\* before the call returns.  A widget without a parent, or whose parent
\* has lost its layout, only keeps the flag.
SetHidden(w, value) ==
  /\ Op
  /\ isHidden[w] # value
  /\ isHidden' = [isHidden EXCEPT ![w] = value]
  /\ LET told == isChild(w)
     IN  /\ posted' = IF told /\ ~sendsFitRequest
                      THEN post(posted, "fit-request") ELSE posted
         /\ last' = Did(IF ~told THEN "hidden"
                        ELSE IF value THEN "childHidden" ELSE "childShown",
                        <<w>>,
                        IF told /\ sendsFitRequest THEN onFitRequest
                        ELSE Returned,
                        IF told /\ sendsFitRequest /\ isAttached THEN "fit"
                        ELSE "none",
                        TRUE)
  /\ UNCHANGED <<widgetParent, children, fixedSpace, orientation, spacing, isAttached,
                 offsetWidth, offsetHeight, style, rect, classes, privateVars,
                 propVars, panelVars, sizers>>

\* panel.hide(): the panel has no parent, and the layout does nothing on
\* before-hide or after-hide.
Hide ==
  /\ Op
  /\ ~isHidden[ThePanel]
  /\ isHidden' = [isHidden EXCEPT ![ThePanel] = TRUE]
  /\ last' = Did("hide", <<>>, Returned, "none",
                 TRUE)
  /\ UNCHANGED <<widgetParent, children, fixedSpace, orientation, spacing, isAttached,
                 offsetWidth, offsetHeight, posted, style, rect, classes,
                 privateVars, propVars, panelVars, sizers>>

\* panel.show(): an attached panel gets after-show, and the onAfterShow of
\* its layout calls parent.update(), which posts an update-request.
Show ==
  /\ Op
  /\ isHidden[ThePanel]
  /\ isHidden' = [isHidden EXCEPT ![ThePanel] = FALSE]
  /\ posted' = IF isAttached /\ parent THEN post(posted, "update-request")
               ELSE posted
  /\ last' = Did("show", <<>>, Returned, "none",
                 TRUE)
  /\ UNCHANGED <<widgetParent, children, fixedSpace, orientation, spacing, isAttached,
                 offsetWidth, offsetHeight, style, rect, classes, privateVars,
                 propVars, panelVars, sizers>>

\* The values assigned to the spacing and to a stretch factor: 8.5, which
\* is stored as 8, and 0.
PropertyValues == {<<17, 2>>, <<0, 1>>}

\* layout.orientation = value: orientationProperty.set; a change calls
\* onOrientationChanged, which gives the node of the layout's parent the
\* class of the orientation and posts a fit-request; without a parent it
\* does neither.
SetOrientation(value) ==
  /\ Op
  /\ value # orientation
  /\ orientation' = value
  /\ classes' = IF parent THEN updateParentOrientation(classes, value)
                ELSE classes
  /\ posted' = IF parent THEN post(posted, "fit-request") ELSE posted
  /\ last' = Did("orientation", <<value>>, Returned, "none",
                 TRUE)
  /\ UNCHANGED <<widgetParent, children, isHidden, fixedSpace, spacing, isAttached,
                 offsetWidth, offsetHeight, style, rect, privateVars,
                 propVars, panelVars, sizers>>

\* layout.spacing = value: spacingProperty.set stores the coerced value; a
\* change calls onSpacingChanged, which posts a fit-request when the
\* layout has a parent.
SetSpacing(value) ==
  /\ Op
  /\ spacing' = coerce(value)
  /\ posted' = IF coerce(value) # spacing /\ parent
               THEN post(posted, "fit-request") ELSE posted
  /\ last' = Did("spacing", <<value>>, Returned, "none",
                 coerce(value) # spacing)
  /\ UNCHANGED <<widgetParent, children, isHidden, fixedSpace, orientation, isAttached,
                 offsetWidth, offsetHeight, style, rect, classes, privateVars,
                 propVars, panelVars, sizers>>

\* SplitLayout.setStretch(w, value): stretchProperty.set stores the coerced
\* value with the widget; a change calls onChildPropertyChanged, which
\* posts a fit-request when the widget's parent is the panel, whether or
\* not the widget is in the layout's list, and does nothing for a widget
\* without a parent or whose parent has lost its layout.
SetStretch(w, value) ==
  /\ Op
  /\ stretch' = [stretch EXCEPT ![w] = coerce(value)]
  /\ IsIE' = IsIE
  /\ posted' = IF coerce(value) # stretch[w] /\ isChild(w)
               THEN post(posted, "fit-request") ELSE posted
  /\ last' = Did("stretch", <<w, value>>, Returned, "none",
                 coerce(value) # stretch[w])
  /\ UNCHANGED <<widgetParent, children, isHidden, fixedSpace, orientation, spacing,
                 isAttached, offsetWidth, offsetHeight, style, rect, classes,
                 privateVars, panelVars, sizers>>

\* The host resizes the attached panel and sends it a resize message:
\* the onResize of its layout passes the new size to the update pass when
\* the panel is visible.
Resize(w, h) ==
  /\ Op
  /\ isAttached
  /\ offsetWidth' = w
  /\ offsetHeight' = h
  /\ last' = Did("resize", <<w, h>>,
                 IF parent THEN onUpdateRequest ELSE Returned,
                 IF parent /\ isVisible THEN "update" ELSE "none",
                 TRUE)
  /\ UNCHANGED <<widgetParent, children, isHidden, fixedSpace, orientation, spacing,
                 isAttached, posted, style, rect, classes, privateVars, propVars,
                 panelVars, sizers>>

\* The message loop delivers a posted fit-request: onFitRequest.
FitRequest ==
  /\ parent
  /\ posted # <<>>
  /\ Head(posted) = "fit-request"
  /\ posted' = Tail(posted)
  /\ last' = Did("fit-request", <<>>, onFitRequest,
                 IF isAttached THEN "fit" ELSE "none",
                 TRUE)
  /\ UNCHANGED <<widgetParent, children, isHidden, fixedSpace, orientation, spacing,
                 isAttached, offsetWidth, offsetHeight, style, rect, classes,
                 privateVars, propVars, panelVars, steps, sizers>>

\* The message loop delivers a posted update-request: onUpdateRequest.
UpdateRequest ==
  /\ parent
  /\ posted # <<>>
  /\ Head(posted) = "update-request"
  /\ posted' = Tail(posted)
  /\ last' = Did("update-request", <<>>, onUpdateRequest,
                 IF isVisible THEN "update" ELSE "none",
                 TRUE)
  /\ UNCHANGED <<widgetParent, children, isHidden, fixedSpace, orientation, spacing,
                 isAttached, offsetWidth, offsetHeight, style, rect, classes,
                 privateVars, propVars, panelVars, steps, sizers>>

\* layout.moveHandle(index, position): the handle is looked up first, and
\* handleAt throws before any bail-out is reached.
MoveHandle(index, position) ==
  /\ Op
  /\ last' = Did("moveHandle", <<index, position>>, handleAt(index), "none",
                 TRUE)
  /\ UNCHANGED <<layoutVars, privateVars, propVars, panelVars, sizers>>

\* layout.setSizes(sizes) called by the host program; the update() of the
\* layout's parent, when it has one, posts an update-request.
SetSizes(v) ==
  /\ Op
  /\ _sizers' = setSizes(_sizers, normalize(v))
  /\ _pendingSizes' = TRUE
  /\ posted' = IF parent THEN post(posted, "update-request") ELSE posted
  /\ last' = Did("setSizes", v, Returned, "none",
                 TRUE)
  /\ UNCHANGED <<widgetParent, children, isHidden, fixedSpace, orientation, spacing,
                 isAttached, offsetWidth, offsetHeight, style, rect, classes,
                 _handles, _factory, propVars, panelVars, sizers>>

\* The mouse buttons: left and right.
Buttons == {0, 2}

\* A mousedown reaches the panel through the listener on its node; no
\* handle and no child node is in the panel, so the target is the panel's
\* own node.
MouseDown(button) ==
  /\ Op
  /\ "mousedown" \in nodeListeners
  /\ last' = Did("mousedown", <<button>>,
                 evtMouseDown(button, Len(children)), "none",
                 TRUE)
  /\ UNCHANGED <<layoutVars, privateVars, propVars, panelVars, sizers>>

\* panel.dispose(): the mouse is released, then Widget.dispose detaches
\* the panel, disposes of its layout, which disposes of the children, and
\* clears the messages and the property data: the layout's orientation,
\* spacing and fixed space, and the stretch factor and the rect of every
\* child in the layout's list, are the defaults again, and these children
\* have no parent any more.  The classes of the node stay.  A second call
\* returns at once.
Dispose ==
  /\ Op
  /\ LET p == releaseMouse(Panel)
     IN  /\ pressData' = p.pressData
         /\ listeners' = p.listeners
         /\ overrides' = p.overrides
  /\ isDisposed' = TRUE
  /\ isAttached' = IF parent THEN FALSE ELSE isAttached
  /\ offsetWidth' = IF parent THEN 0 ELSE offsetWidth
  /\ offsetHeight' = IF parent THEN 0 ELSE offsetHeight
  /\ nodeListeners' = IF parent THEN {} ELSE nodeListeners
  /\ children' = IF parent THEN <<>> ELSE children
  /\ posted' = IF parent THEN <<>> ELSE posted
  /\ orientation' = IF parent THEN Horizontal ELSE orientation
  /\ spacing' = IF parent THEN 3 ELSE spacing
  /\ fixedSpace' = IF parent THEN 0 ELSE fixedSpace
  /\ stretch' = [w \in AllWidgets |->
                   IF parent /\ inLayout(w) THEN 0 ELSE stretch[w]]
  /\ rect' = [w \in AllWidgets |->
                IF parent /\ inLayout(w) THEN NoRect ELSE rect[w]]
  /\ widgetParent' = [w \in AllWidgets |->
                        IF parent /\ inLayout(w) THEN FALSE
                        ELSE widgetParent[w]]
  /\ IsIE' = IsIE
  /\ last' = Did("dispose", <<>>, Returned, "none",
                 parent)
  /\ UNCHANGED <<isHidden, style, classes, privateVars, sizers>>

Next ==
  \/ \E size \in ContainerSizes : Attach(size[1], size[2])
  \/ Detach
  \/ \E w \in Widgets, index \in 0..Len(children) : AttachChild(index, w)
  \/ \E fromIndex, toIndex \in 0..(Len(children) - 1) :
       MoveChild(fromIndex, toIndex)
  \/ \E index \in 0..(Len(children) - 1) : DetachChild(index)
  \/ \E w \in Widgets, value \in BOOLEAN : SetHidden(w, value)
  \/ Hide
  \/ Show
  \/ \E value \in {Horizontal, Vertical} : SetOrientation(value)
  \/ \E value \in PropertyValues : SetSpacing(value)
  \/ \E w \in Widgets, value \in PropertyValues : SetStretch(w, value)
  \/ \E size \in ContainerSizes : Resize(size[1], size[2])
  \/ FitRequest
  \/ UpdateRequest
  \/ \E index \in 0..Len(children), position \in Positions :
       MoveHandle(index, position)
  \/ \E v \in SizeVectors : SetSizes(v)
  \/ \E button \in Buttons : MouseDown(button)
  \/ Dispose

Spec == Init /\ [][Next]_vars

(***************************************************************************)
(* SpecFixture: the panel of the resize tests: three children, the third   *)
(* hidden, spacing 8, either orientation, in a 100x70 or a 50x100 host.    *)
(***************************************************************************)
FixtureChildren == <<4, 5, 6>>

FixtureSizes == {<<100, 70>>, <<50, 100>>}

\* The panel as the statements of the fixture leave it, with nothing
\* delivered yet: the assignment of the spacing (3 to 8) has posted a
\* fit-request.
FixtureInit ==
  /\ children = FixtureChildren
  /\ widgetParent = [w \in AllWidgets |-> w \in FixtureWidgets]
  /\ isHidden = [w \in AllWidgets |-> w = 6]
  /\ orientation \in {Horizontal, Vertical}
  /\ classes = updateParentOrientation({SPLIT_PANEL_CLASS}, orientation)
  /\ spacing = 8
  /\ isAttached = FALSE
  /\ offsetWidth = 0
  /\ offsetHeight = 0
  /\ posted = <<"fit-request">>
  /\ nodeListeners = {}
  /\ IsIE \in BOOLEAN
  /\ PanelInit
  /\ PropInit
  /\ steps = 0
  /\ sizers = <<>>
  /\ last = NoStep("init", <<>>)

FixtureNext ==
  \/ \E size \in FixtureSizes : Attach(size[1], size[2])
  \/ \E size \in FixtureSizes : Resize(size[1], size[2])
  \/ \E w \in FixtureWidgets, value \in BOOLEAN : SetHidden(w, value)
  \/ \E value \in {Horizontal, Vertical} : SetOrientation(value)
  \/ Hide
  \/ Show
  \/ FitRequest
  \/ UpdateRequest

SpecFixture == FixtureInit /\ [][FixtureNext]_vars

(***************************************************************************)
(* SpecDrag: the functions growSizer, shrinkSizer and boxCalc, each called  *)
(* by itself on a sizer list in which every sizer has minSize <= size <=   *)
(* maxSize and its size as its hint.  No method of the layout is part of   *)
(* it: moveHandle throws before it reaches them.                           *)
(***************************************************************************)
DragMins == {Q(0), Q(1)}

DragSizes == {Q(0), Q(1), Q(3)}

DragMaxes == {Q(3), Infinity}

DragSizerSet ==
  {[id |-> 0, sizeHint |-> t[2], minSize |-> t[1], maxSize |-> t[3],
    stretch |-> 0, size |-> t[2]] :
     t \in {t \in DragMins \X DragSizes \X DragMaxes :
              Le(t[1], t[2]) /\ Le(t[2], t[3])}}

\* A panel and a layout as constructed, which the pure functions do not
\* touch.
Untouched ==
  /\ children = <<>>
  /\ widgetParent = [w \in AllWidgets |-> FALSE]
  /\ isHidden = [w \in AllWidgets |-> FALSE]
  /\ orientation = Horizontal
  /\ classes = updateParentOrientation({SPLIT_PANEL_CLASS}, orientation)
  /\ spacing = 3
  /\ isAttached = FALSE
  /\ offsetWidth = 0
  /\ offsetHeight = 0
  /\ posted = <<>>
  /\ nodeListeners = {}
  /\ IsIE = FALSE
  /\ PanelInit
  /\ PropInit
  /\ steps = 0

DragInit ==
  /\ \E n \in 2..MaxLen : sizers \in [1..n -> DragSizerSet]
  /\ Untouched
  /\ last = [op |-> "init"]

\* growSizer(sizers, index, delta), for delta > 0.
GrowSizer(index, delta) ==
  /\ last.op = "init"
  /\ sizers' = growSizer(sizers, index, Q(delta))
  /\ last' = [op |-> "adjust", index |-> index, delta |-> delta,
              before |-> sizers]
  /\ UNCHANGED <<layoutVars, privateVars, propVars, panelVars, steps>>

\* shrinkSizer(sizers, index, delta), for delta > 0; the handle goes the
\* other way, which the history records as -delta.
ShrinkSizer(index, delta) ==
  /\ last.op = "init"
  /\ sizers' = shrinkSizer(sizers, index, Q(delta))
  /\ last' = [op |-> "adjust", index |-> index, delta |-> -delta,
              before |-> sizers]
  /\ UNCHANGED <<layoutVars, privateVars, propVars, panelVars, steps>>

\* boxCalc(sizers, space), with the space the sizers held before.
BoxCalc ==
  /\ last.op = "adjust"
  /\ sizers' = boxCalc(sizers, TotalSize(last.before))
  /\ last' = [op |-> "distribute", index |-> last.index,
              delta |-> last.delta, before |-> last.before]
  /\ UNCHANGED <<layoutVars, privateVars, propVars, panelVars, steps>>

DragNext ==
  \/ \E index \in 0..(Len(sizers) - 2), delta \in 1..MaxDelta :
       GrowSizer(index, delta)
  \/ \E index \in 0..(Len(sizers) - 2), delta \in 1..MaxDelta :
       ShrinkSizer(index, delta)
  \/ BoxCalc

SpecDrag == DragInit /\ [][DragNext]_vars

(***************************************************************************)
(* SpecSizes: setSizes called on a layout whose _sizers holds one to       *)
(* MaxLen sizers, or none.  No method of the layout writes the field       *)
(* (attachChild throws before it would), so the sizers are those a host    *)
(* has put there; everything else is a panel and a layout as constructed.  *)
(***************************************************************************)
\* The sizers setSizes finds: hint and size differ, or agree.
GivenSizers ==
  {[id |-> 0, sizeHint |-> hint, minSize |-> Q(0), maxSize |-> Infinity,
    stretch |-> 0, size |-> size] :
     hint \in {Q(0), Q(3)}, size \in {Q(1), Q(3)}}

SizesInit ==
  /\ children = <<>>
  /\ widgetParent = [w \in AllWidgets |-> FALSE]
  /\ isHidden = [w \in AllWidgets |-> FALSE]
  /\ orientation = Horizontal
  /\ classes = updateParentOrientation({SPLIT_PANEL_CLASS}, orientation)
  /\ spacing = 3
  /\ isAttached = FALSE
  /\ offsetWidth = 0
  /\ offsetHeight = 0
  /\ posted = <<>>
  /\ nodeListeners = {}
  /\ IsIE = FALSE
  /\ \E n \in 0..MaxLen : _sizers \in [1..n -> GivenSizers]
  /\ _handles = <<>>
  /\ _pendingSizes = FALSE
  /\ _factory = "SplitPanel"
  /\ fixedSpace = 0
  /\ style = NoStyle
  /\ rect = [w \in AllWidgets |-> NoRect]
  /\ pressData = NoPress
  /\ listeners = {}
  /\ overrides = {}
  /\ isDisposed = FALSE
  /\ PropInit
  /\ steps = 0
  /\ sizers = <<>>
  /\ last = NoStep("init", <<>>)

SizesNext == \E v \in SizeVectors : SetSizes(v)

SpecSizes == SizesInit /\ [][SizesNext]_vars

(***************************************************************************)
(* SpecNormalize: normalize applied to every vector of at most MaxLen      *)
(* values.                                                                 *)
(***************************************************************************)
NormalizeValues == {Q(-1), Q(0), Q(2), Q(3)}

NormalizeInputs ==
  UNION {[1..n -> NormalizeValues] : n \in 0..MaxLen}

NormalizeInit ==
  /\ Untouched
  /\ sizers = <<>>
  /\ \E values \in NormalizeInputs : last = [op |-> "values", values |-> values]

\* result = normalize(values); values is the array as the call leaves it.
Normalize ==
  /\ last.op = "values"
  /\ last' = [op |-> "normalize", given |-> last.values,
              values |-> last.values, result |-> normalize(last.values)]
  /\ UNCHANGED <<layoutVars, privateVars, propVars, panelVars, steps, sizers>>

SpecNormalize == NormalizeInit /\ [][Normalize]_vars

(***************************************************************************)
(* SpecCoerce: one assignment to the spacing or to a stretch factor of a   *)
(* layout with the default properties, for every value of CoerceInputs.    *)
(***************************************************************************)
\* Halves between -6 and 6, Infinity, and integers around 2^31 and 2^32.
CoerceInputs ==
  {<<n, d>> : n \in -12..12, d \in {1, 2}}
  \cup {Infinity}
  \cup {<<hi, lo, "e16">> : hi \in {32767, 32768, 65535, 65536, 98304},
                           lo \in {0, 5, 65535}}

CoerceInit ==
  /\ children = <<1, 2>>
  /\ widgetParent = [w \in AllWidgets |-> w \in {1, 2}]
  /\ isHidden = [w \in AllWidgets |-> FALSE]
  /\ orientation = Horizontal
  /\ classes = updateParentOrientation({SPLIT_PANEL_CLASS}, orientation)
  /\ spacing = 3
  /\ isAttached = TRUE
  /\ offsetWidth = 11
  /\ offsetHeight = 4
  /\ posted = <<"fit-request">>
  /\ nodeListeners = {"mousedown"}
  /\ PanelInit
  /\ IsIE = FALSE
  /\ stretch = [w \in AllWidgets |-> 0]
  /\ steps = 0
  /\ sizers = <<>>
  /\ \E value \in CoerceInputs : last = NoStep("value", value)

CoerceNext ==
  /\ last.op = "value"
  /\ \/ SetSpacing(last.arg)
     \/ SetStretch(1, last.arg)

SpecCoerce == CoerceInit /\ [][CoerceNext]_vars

(***************************************************************************)
(* Properties.                                                             *)
(***************************************************************************)
AbsQ(a) == IF Lt(a, Zero) THEN Neg(a) ELSE a

InBounds(sizer) == Le(sizer.minSize, sizer.size) /\ Le(sizer.size, sizer.maxSize)

HintInBounds(sizer) ==
  Le(sizer.minSize, sizer.sizeHint) /\ Le(sizer.sizeHint, sizer.maxSize)

RECURSIVE SumRange(_, _, _, _)
\* The sum of field f over the 1-based positions lo..hi.
SumRange(szs, lo, hi, f) ==
  IF lo > hi THEN Zero ELSE Add(SumRange(szs, lo, hi - 1, f), szs[hi][f])

\* The displacement a drag by delta of the handle at index can make: the
\* requested one, limited by the room to grow on one side and the room
\* to shrink on the other.
FeasibleDelta(szs, index, delta) ==
  IF Gt(delta, Zero)
  THEN MathMin(delta, MathMin(SumGrowRoom(szs, 1, index + 1),
                              SumShrinkRoom(szs, index + 2, Len(szs))))
  ELSE Neg(MathMin(Neg(delta),
                   MathMin(SumGrowRoom(szs, index + 2, Len(szs)),
                           SumShrinkRoom(szs, 1, index + 1))))

\* In SpecDrag: the displacement the adjustment made of the handle, read
\* off the hints left of and at the index.
AppliedDelta ==
  Sub(SumRange(sizers, 1, last.index + 1, "sizeHint"),
      SumRange(last.before, 1, last.index + 1, "size"))

\* C1: after growSizer / shrinkSizer on sizers that are within their
\* bounds, every sizeHint lies within its sizer's [minSize, maxSize].
C1_HintsWithinBounds ==
  last.op = "adjust" =>
    \A i \in 1..Len(sizers) : HintInBounds(sizers[i])

\* A drag asked for more than the sizers can accommodate, and moved some.
C1_Witness ==
  /\ last.op = "adjust"
  /\ last.delta > 0
  /\ Lt(FeasibleDelta(last.before, last.index, Q(last.delta)), Q(last.delta))
  /\ \E i \in 1..Len(sizers) : sizers[i].sizeHint # last.before[i].sizeHint

\* C2: the adjustment adds to the hints on the growing side exactly what
\* it removes from the hints on the shrinking side, and the sizes after
\* the next distribution pass sum to what they summed to before the drag.
C2_SpaceConserved ==
  /\ last.op = "adjust" =>
       LET n == Len(sizers)
           k == last.index + 1
           left == Sub(SumRange(sizers, 1, k, "sizeHint"),
                       SumRange(last.before, 1, k, "size"))
           right == Sub(SumRange(sizers, k + 1, n, "sizeHint"),
                        SumRange(last.before, k + 1, n, "size"))
       IN  Add(left, right) = Zero
  /\ last.op = "distribute" =>
       TotalSize(sizers) = TotalSize(last.before)

\* The distribution pass after a drag that moved space between sizers.
C2_Witness ==
  /\ last.op = "distribute"
  /\ \E i \in 1..Len(sizers) : Gt(sizers[i].size, last.before[i].size)
  /\ \E i \in 1..Len(sizers) : Lt(sizers[i].size, last.before[i].size)

\* C3: the displacement applied by a drag is min(delta, growLimit,
\* shrinkLimit), with the limits those of the sizers before the drag.
C3_ClampedDelta ==
  last.op = "adjust" =>
    AppliedDelta = FeasibleDelta(last.before, last.index, Q(last.delta))

\* A drag that was cut down to a smaller, non-zero displacement.
C3_Witness ==
  /\ last.op = "adjust"
  /\ AppliedDelta # Q(last.delta)
  /\ AppliedDelta # Zero
  /\ Len(sizers) = 3

\* The operations that change the children of the panel.
ChildOps == {"attachChild", "moveChild", "detachChild"}

\* C4: after attachChild, moveChild or detachChild the layout has as many
\* sizers and as many handles as the panel has children, and the sizer and
\* the handle at an index are those made for the child at that index.
C4_Lockstep ==
  (last.op \in ChildOps /\ last.parent) =>
    /\ Len(_sizers) = Len(children)
    /\ Len(_handles) = Len(children)
    /\ \A i \in 1..Len(children) :
         _sizers[i].id = children[i] /\ _handles[i].id = children[i]

\* The panes that are not hidden, by position.
VisiblePanes == {i \in 1..Len(children) : ~isHidden[children[i]]}

\* The fixed space a fit pass is to leave: the spacing for every visible
\* pane but one.
HandleSpace ==
  spacing * (IF Cardinality(VisiblePanes) > 1
             THEN Cardinality(VisiblePanes) - 1 ELSE 0)

\* A limit of pane i: which is "min" or "max", along the main axis or
\* across it.
PaneLimit(i, which, main) ==
  LET limits == sizeLimits(children[i])
      width == (orientation = Horizontal) <=> main
  IN  IF which = "min"
      THEN (IF width THEN limits.minWidth ELSE limits.minHeight)
      ELSE (IF width THEN limits.maxWidth ELSE limits.maxHeight)

RECURSIVE SumMainLimit(_, _)
\* The sum of the main-axis limits of the visible panes among the first n.
SumMainLimit(which, n) ==
  IF n = 0 THEN Zero
  ELSE Add(SumMainLimit(which, n - 1),
           IF n \in VisiblePanes THEN PaneLimit(n, which, TRUE) ELSE Zero)

\* The length of the panel's content box along the main axis.
AxisLength ==
  IF orientation = Horizontal
  THEN Sub(Q(offsetWidth), boxSizing.horizontalSum)
  ELSE Sub(Q(offsetHeight), boxSizing.verticalSum)

\* The main space of an update pass: the axis length less the fixed space,
\* and not below 0.
MainSpace == MathMax(Zero, Sub(AxisLength, Q(fixedSpace)))

\* The main space lies between the sum of the visible panes' minimums and
\* the sum of their maximums.
Feasible ==
  /\ Le(SumMainLimit("min", Len(children)), MainSpace)
  /\ Le(MainSpace, SumMainLimit("max", Len(children)))

\* An update pass was entered on a panel with children.
UpdatePass == last.pass = "update" /\ Len(children) > 0

\* A fit pass was entered.
FitPass == last.pass = "fit"

\* C5: after an update pass the sizes of the sizers sum to mainSpace,
\* within one unit, whenever mainSpace lies between the sum of the
\* minimums and the sum of the maximums.
C5_ExactFit ==
  (UpdatePass /\ Feasible) =>
    Le(AbsQ(Sub(TotalSize(_sizers), MainSpace)), Q(1))

\* C6: after every update pass there is a sizer for every pane, every
\* sizer has minSize <= size <= maxSize, and the sizer of a hidden pane
\* has size 0.
C6_SizeWithinBounds ==
  UpdatePass =>
    /\ Len(_sizers) = Len(children)
    /\ \A i \in 1..Len(children) :
         /\ InBounds(_sizers[i])
         /\ isHidden[children[i]] => _sizers[i].size = Zero

\* The step was made on an attached panel that has its layout, with every
\* request processed.
Settled == last.parent /\ last.attached /\ last.posted = <<>>

\* C7: moveHandle(index, position) on a settled layout, for the handle of a
\* visible pane that is not the last visible one, returns with that handle
\* in the layout and an update pass requested, which places the handle at
\* its old offset plus the feasible displacement.
C7_HandleAtTarget ==
  (/\ last.op = "moveHandle"
   /\ Settled
   /\ last.arg[1] + 1 \in VisiblePanes
   /\ \E j \in VisiblePanes : j > last.arg[1] + 1) =>
    /\ last.threw = Returned
    /\ last.arg[1] < Len(_handles)
    /\ \E k \in 1..Len(posted) : posted[k] = "update-request"

\* C8: moveHandle for an index that has no pane returns without an
\* exception, changes no sizer and requests no update.
C8_NoOp ==
  (last.op = "moveHandle" /\ last.parent
   /\ last.arg[1] >= Len(children)) =>
    /\ last.threw = Returned
    /\ posted = last.posted
    /\ last.pass = "none"

\* C13: normalize(values) has the length of values; entry i is values[i]
\* divided by the sum of the values, so the entries sum to 1; when the sum
\* is 0 every entry is 1/n; the empty vector gives the empty vector; the
\* input is left as it was.
C13_Normalize ==
  last.op = "normalize" =>
    LET n == Len(last.given)
        sum == sumValues(last.given, n)
    IN  /\ Len(last.result) = n
        /\ last.values = last.given
        /\ n = 0 => last.result = <<>>
        /\ (n > 0 /\ sum = Zero) =>
             \A i \in 1..n : last.result[i] = Div(Q(1), Q(n))
        /\ (n > 0 /\ sum # Zero) =>
             \A i \in 1..n : Mul(last.result[i], sum) = last.given[i]
        /\ n > 0 => sumValues(last.result, n) = Q(1)

\* normalize([2, 3]) returned [2/5, 3/5].
C13_Witness ==
  /\ last.op = "normalize"
  /\ last.given = <<Q(2), Q(3)>>
  /\ last.result = <<<<2, 5>>, <<3, 5>>>>

\* C14: sizes() has one entry per pane, and its entries sum to 1 when
\* there is a pane; before the first layout they are all 1/n.
C14_SizesPerPane ==
  parent =>
    /\ Len(sizes) = Len(children)
    /\ Len(children) > 0 => sumValues(sizes, Len(sizes)) = Q(1)
    /\ (Len(children) > 0 /\ ~isAttached /\ last.given = <<>>) =>
         \A i \in 1..Len(sizes) : sizes[i] = Div(Q(1), Q(Len(children)))

\* v has one entry per pane, no negative entry and a positive sum.
FitsPanes(v) ==
  /\ Len(v) = Len(children)
  /\ \A i \in 1..Len(v) : Ge(v[i], Zero)
  /\ Gt(sumValues(v, Len(v)), Zero)

\* C15: sizes() right after setSizes(v), for v of non-negative values with
\* a positive sum and one entry per pane, is normalize(v).
C15_SizesAfterSetSizes ==
  (last.op = "setSizes" /\ last.parent /\ FitsPanes(last.arg)) =>
    sizes = normalize(last.arg)

\* C16: when setSizes(v) is followed by an update pass in which no pane's
\* limit binds and the main space is positive, the pass returns and
\* sizes() is normalize(v).
C16_ProportionsAfterUpdate ==
  (/\ UpdatePass
   /\ last.pending
   /\ FitsPanes(last.given)
   /\ VisiblePanes = 1..Len(children)
   /\ Gt(MainSpace, Zero)
   /\ \A i \in 1..Len(children) :
        LET target == Mul(normalize(last.given)[i], MainSpace)
        IN  /\ Le(PaneLimit(i, "min", TRUE), target)
            /\ Le(target, PaneLimit(i, "max", TRUE))) =>
    /\ last.threw = Returned
    /\ sizes = normalize(last.given)

\* C17: setSizes(v) returns for any v and leaves the number of sizers as
\* it was; afterwards every sizer has sizeHint = size >= 0, where sizer i
\* holds entry i of normalize(v) clamped at 0, and 0 when v has no entry
\* i; the entries of v beyond the last sizer go nowhere.
C17_SetSizesTotal ==
  last.op = "setSizes" =>
    LET normed == normalize(last.arg)
    IN  /\ last.threw = Returned
        /\ Len(_sizers) = Len(last.sizers)
        /\ \A i \in 1..Len(_sizers) :
             /\ _sizers[i].sizeHint = _sizers[i].size
             /\ Ge(_sizers[i].size, Zero)
             /\ _sizers[i].size =
                  MathMax(Zero, IF i <= Len(normed) THEN normed[i] ELSE Zero)
             /\ _sizers[i].minSize = last.sizers[i].minSize
             /\ _sizers[i].maxSize = last.sizers[i].maxSize

\* setSizes([-1, 3]) on three sizers whose hints and sizes differed left
\* 0 (clamped), 3/2 and 0 (no entry).
C17_Witness ==
  /\ last.op = "setSizes"
  /\ last.arg = <<Q(-1), Q(3)>>
  /\ Len(last.sizers) = 3
  /\ \A i \in 1..3 : last.sizers[i].sizeHint # last.sizers[i].size
  /\ _sizers[1].size = Zero
  /\ _sizers[2].size = <<3, 2>>
  /\ _sizers[3].size = Zero

\* C18: moveChild(i, j) returns, and sizes() has one entry per pane after
\* it, the entries before it with entry i moved to j.
C18_MoveReordersSizes ==
  (last.op = "moveChild" /\ last.parent) =>
    /\ last.threw = Returned
    /\ Len(sizes) = Len(children)

\* value + 'px': the number followed by the unit.
px(m) == <<m[1], m[2], "px">>

\* A length as the style holds it: 'none' for Infinity.
Length(m) == IF IsFinite(m) THEN px(m) ELSE <<"none">>

\* The panes of the fixture: child0 and child1 visible, child2 hidden.
FixturePanes ==
  /\ children = FixtureChildren
  /\ \A w \in FixtureWidgets : isHidden[w] <=> w = 6

\* No fit-request is waiting: the last fit pass saw the present children.
Fitted == \A k \in 1..Len(posted) : posted[k] # "fit-request"

\* The geometry of a widget: its rect, in numbers.
Rect(left, top, width, height) ==
  [top |-> Q(top), left |-> Q(left), width |-> Q(width), height |-> Q(height)]

\* C19: in SpecFixture, after an update pass on the fixture with no fit
\* pass outstanding: vertical in 100x70, child0 is at top 0 with height 6,
\* child1 at top 14 with height 56, both 100 wide, and the panel's
\* min-height is 58px and its min-width 30px; horizontal in 50x100, child0
\* is at left 0 with width 36, child1 at left 44 with width 6, both 100
\* high, and the panel's min-width is 38px and its min-height 50px.
C19_EqualSplit ==
  (UpdatePass /\ Fitted /\ FixturePanes) =>
    /\ (orientation = Vertical /\ offsetWidth = 100 /\ offsetHeight = 70) =>
         /\ rect[4] = Rect(0, 0, 100, 6)
         /\ rect[5] = Rect(0, 14, 100, 56)
         /\ style.minHeight = px(Q(58))
         /\ style.minWidth = px(Q(30))
    /\ (orientation = Horizontal /\ offsetWidth = 50 /\ offsetHeight = 100) =>
         /\ rect[4] = Rect(0, 0, 36, 100)
         /\ rect[5] = Rect(44, 0, 6, 100)
         /\ style.minWidth = px(Q(38))
         /\ style.minHeight = px(Q(50))

\* C20: after a fit pass there is a handle for every pane, and a handle is
\* visible exactly when its pane is visible and is not the last visible
\* pane, so the number of visible handles is max(0, visibleCount - 1).
C20_HandleVisibility ==
  FitPass =>
    LET shown == {i \in 1..Len(_handles) : ~_handles[i].hidden}
        count == Cardinality(VisiblePanes)
    IN  /\ Len(_handles) = Len(children)
        /\ \A i \in 1..Len(children) :
             ~_handles[i].hidden <=>
               (i \in VisiblePanes /\ \E j \in VisiblePanes : j > i)
        /\ Cardinality(shown) = IF count > 0 THEN count - 1 ELSE 0

\* C21: after a fit pass the panel's style holds: main-axis minimum =
\* fixedSpace + the sum of the visible panes' main-axis minimums; main-axis
\* maximum = fixedSpace + the sum of their main-axis maximums, none when no
\* pane is visible or a visible maximum is unbounded; cross-axis minimum =
\* the largest visible cross-axis minimum; cross-axis maximum = the smallest
\* visible cross-axis maximum; each plus the panel's border and padding.
C21_Envelope ==
  FitPass =>
    LET n == Len(children)
        horizontal == orientation = Horizontal
        mainBox == IF horizontal THEN boxSizing.horizontalSum
                   ELSE boxSizing.verticalSum
        crossBox == IF horizontal THEN boxSizing.verticalSum
                    ELSE boxSizing.horizontalSum
        mainMin == IF horizontal THEN style.minWidth ELSE style.minHeight
        mainMax == IF horizontal THEN style.maxWidth ELSE style.maxHeight
        crossMin == IF horizontal THEN style.minHeight ELSE style.minWidth
        crossMax == IF horizontal THEN style.maxHeight ELSE style.maxWidth
    IN  /\ mainMin = px(Add(Add(Q(fixedSpace), SumMainLimit("min", n)),
                            mainBox))
        /\ mainMax =
             IF \/ VisiblePanes = {}
                \/ \E i \in VisiblePanes : ~IsFinite(PaneLimit(i, "max", TRUE))
             THEN <<"none">>
             ELSE px(Add(Add(Q(fixedSpace), SumMainLimit("max", n)), mainBox))
        /\ \E m \in {Zero} \cup {PaneLimit(i, "min", FALSE) : i \in VisiblePanes} :
             /\ \A i \in VisiblePanes : Le(PaneLimit(i, "min", FALSE), m)
             /\ crossMin = px(Add(m, crossBox))
        /\ \E m \in {Infinity}
                   \cup {PaneLimit(i, "max", FALSE) : i \in VisiblePanes} :
             /\ \A i \in VisiblePanes : Le(m, PaneLimit(i, "max", FALSE))
             /\ crossMax = Length(Add(m, crossBox))

\* The operations that call for a new layout of the panel.
Mutations ==
  ChildOps \cup {"childHidden", "childShown", "orientation", "spacing",
                 "stretch"}

\* A mutation that changed the panel: made on a layout that has its panel,
\* and, for a stretch factor, on a widget whose parent is the panel.
Mutated ==
  /\ last.op \in Mutations
  /\ last.changed
  /\ last.parent
  /\ last.op = "stretch" => last.widgetParent[last.arg[1]]

RECURSIVE FitRequests(_)
\* The number of fit-requests among the first n posted messages.
FitRequests(n) ==
  IF n = 0 THEN 0
  ELSE FitRequests(n - 1) + (IF posted[n] = "fit-request" THEN 1 ELSE 0)

\* C22: however many mutations were made since the last tick, exactly one
\* fit-request is waiting after a mutation, and no pass was made inside
\* the mutating call.
C22_OnePassPerTick ==
  Mutated =>
    /\ FitRequests(Len(posted)) = 1
    /\ last.pass = "none"

\* C23: a mutation does not enter the fit pass before it returns and
\* processes no message; when it returns, the request for the pass is
\* posted, to be processed at the next tick.
C23_FitDeferred ==
  Mutated =>
    /\ last.pass = "none"
    /\ last.threw = Returned
    /\ Len(posted) >= Len(last.posted)
    /\ \E k \in 1..Len(posted) : posted[k] = "fit-request"

\* The integer a property holds after the value was assigned to it: the
\* value without its fraction, reduced modulo 2^32 into -2^31 .. 2^31 - 1,
\* or 0 when that is negative.
Stored(value) ==
  LET whole ==
        IF Len(value) = 3
        THEN (((value[1] + 32768) % 65536) - 32768) * 65536 + value[2]
        ELSE IF ~IsFinite(value) THEN 0
        ELSE CHOOSE k \in -12..12 :
               \/ value[1] >= 0 /\ k * value[2] <= value[1]
                                /\ value[1] < (k + 1) * value[2]
               \/ value[1] < 0 /\ (k - 1) * value[2] < value[1]
                               /\ value[1] <= k * value[2]
  IN  IF whole < 0 THEN 0 ELSE whole

\* C24: the stored spacing and the stored stretch factors are non-negative
\* integers: the assigned value truncated to an integer of 32 bits and
\* clamped at 0; the defaults are spacing 3 and stretch 0; an assigned
\* non-negative integer below 2^31 is read back as it was assigned.
C24_Coerced ==
  /\ spacing \in Nat
  /\ \A w \in Widgets : stretch[w] \in Nat
  /\ last.op = "value" => (spacing = 3 /\ \A w \in Widgets : stretch[w] = 0)
  /\ last.op = "spacing" => spacing = Stored(last.arg[1])
  /\ last.op = "stretch" => stretch[1] = Stored(last.arg[2])
  /\ (last.op = "spacing" /\ Len(last.arg[1]) = 2 /\ last.arg[1][2] = 1
      /\ last.arg[1][1] >= 0) => spacing = last.arg[1][1]
  /\ (last.op = "stretch" /\ Len(last.arg[2]) = 2 /\ last.arg[2][2] = 1
      /\ last.arg[2][1] >= 0) => stretch[1] = last.arg[2][1]

\* 2^32 + 5 was given as a stretch factor and 5 was stored.
C24_Witness ==
  /\ last.op = "stretch"
  /\ last.arg[2] = <<65536, 5, "e16">>
  /\ stretch[1] = 5

\* C25: in SpecDrag, after growSizer with a positive delta, no sizer left of
\* or at the index has a hint below its size and none right of it a hint
\* above its size; a sizer left of or at the index whose hint was raised has
\* every sizer between it and the handle at its maxSize, and a sizer right
\* of the index whose hint was lowered has every sizer between the handle
\* and it at its minSize.
C25_NearestFirst ==
  (last.op = "adjust" /\ last.delta > 0) =>
    LET n == Len(sizers)
        k == last.index + 1
    IN  /\ \A i \in 1..k :
             /\ Ge(sizers[i].sizeHint, last.before[i].size)
             /\ sizers[i].sizeHint # last.before[i].size =>
                  \A j \in (i + 1)..k : sizers[j].sizeHint = sizers[j].maxSize
        /\ \A i \in (k + 1)..n :
             /\ Le(sizers[i].sizeHint, last.before[i].size)
             /\ sizers[i].sizeHint # last.before[i].size =>
                  \A j \in (k + 1)..(i - 1) :
                     sizers[j].sizeHint = sizers[j].minSize

\* A growth by 4 at the first handle of three sizers took the second sizer
\* down to its minimum and the rest from the third.
C25_Witness ==
  /\ last.op = "adjust"
  /\ last.delta = 4
  /\ last.index = 0
  /\ Len(sizers) = 3
  /\ Gt(last.before[2].size, last.before[2].minSize)
  /\ sizers[2].sizeHint = sizers[2].minSize
  /\ Lt(sizers[3].sizeHint, last.before[3].size)
  /\ sizers[1].sizeHint = Add(last.before[1].size, Q(4))

\* The list read from its last element to its first.
Reversed(szs) == [i \in 1..Len(szs) |-> szs[Len(szs) + 1 - i]]

\* The hints of a sizer list, in order.
Hints(szs) == [i \in 1..Len(szs) |-> szs[i].sizeHint]

\* C26: in SpecDrag, for d > 0, the hints shrinkSizer(sizers, index, d)
\* leaves are the hints growSizer leaves on the reversed list at index
\* n - 2 - index, read in reverse; growSizer is the mirror of shrinkSizer
\* in the same way.
C26_Mirror ==
  last.op = "adjust" =>
    LET n == Len(sizers)
        d == Q(Abs(last.delta))
        mirrored == Reversed(last.before)
        at == n - 2 - last.index
    IN  IF last.delta < 0
        THEN Hints(sizers) = Hints(Reversed(growSizer(mirrored, at, d)))
        ELSE Hints(sizers) = Hints(Reversed(shrinkSizer(mirrored, at, d)))

\* A shrink at the first handle of three unequal sizers that raised the
\* hints of both sizers on the right and lowered the first.
C26_Witness ==
  /\ last.op = "adjust"
  /\ last.delta < 0
  /\ last.index = 0
  /\ Len(sizers) = 3
  /\ last.before[2] # last.before[3]
  /\ Lt(sizers[1].sizeHint, last.before[1].size)
  /\ Gt(sizers[2].sizeHint, last.before[2].size)
  /\ Gt(sizers[3].sizeHint, last.before[3].size)

\* C27: moveHandle on a settled layout, for the handle of a visible pane
\* that is not the last visible one and a position beyond the panel, which
\* no handle is at, makes no update pass before it returns and requests
\* one through the panel's message queue.
C27_DragWritesHints ==
  (/\ last.op = "moveHandle"
   /\ Settled
   /\ last.arg[1] + 1 \in VisiblePanes
   /\ \E j \in VisiblePanes : j > last.arg[1] + 1
   /\ Gt(Q(last.arg[2]), AxisLength)) =>
    /\ last.pass = "none"
    /\ posted = <<"update-request">>

\* C28: setSizes sets the pending flag; an update pass that runs with the
\* flag set clears it; an update request or a resize that makes no pass
\* leaves the flag as it was.
C28_PendingOnce ==
  /\ (last.op = "setSizes" /\ last.parent) => _pendingSizes
  /\ (UpdatePass /\ last.pending) => ~_pendingSizes
  /\ (last.op \in {"update-request", "resize"} /\ ~UpdatePass) =>
       _pendingSizes = last.pending

\* C29: after every fit pass fixedSpace = spacing * max(0, number of panes
\* that are not hidden - 1), and the main space of an update pass is not
\* negative.
C29_FixedSpace ==
  /\ FitPass => fixedSpace = HandleSpace
  /\ Ge(MainSpace, Zero)

\* The offset of a rect along the main axis, and its extent.
Start(r) == IF orientation = Horizontal THEN r.left ELSE r.top

Extent(r) == IF orientation = Horizontal THEN r.width ELSE r.height

\* C30: in SpecFixture, after an update pass the first visible pane starts
\* at the panel's padding offset, and each later visible pane starts where
\* the visible pane before it ends, plus the spacing.
C30_Sequential ==
  UpdatePass =>
    \A i \in VisiblePanes :
      LET r == rect[children[i]]
          before == {j \in VisiblePanes : j < i}
      IN  IF before = {}
          THEN Start(r) = (IF orientation = Horizontal
                           THEN boxSizing.paddingLeft
                           ELSE boxSizing.paddingTop)
          ELSE \E j \in before :
                 /\ \A k \in before : k <= j
                 /\ Start(r) # NaN
                 /\ Start(r) = Add(Add(Start(rect[children[j]]),
                                       Extent(rect[children[j]])),
                                   Q(spacing))

\* C31: after a fit pass every pane has a sizer; the sizer of a hidden pane
\* has minSize 0 and maxSize Infinity, and the sizer of a visible pane has
\* the pane's main-axis minimum and maximum and its stretch factor.
C31_FitBounds ==
  FitPass =>
    /\ Len(_sizers) = Len(children)
    /\ \A i \in 1..Len(children) :
         IF isHidden[children[i]]
         THEN _sizers[i].minSize = Zero /\ _sizers[i].maxSize = Infinity
         ELSE /\ _sizers[i].minSize = PaneLimit(i, "min", TRUE)
              /\ _sizers[i].maxSize = PaneLimit(i, "max", TRUE)
              /\ _sizers[i].stretch = stretch[children[i]]

\* C32: a fit pass on a panel without a parent sends the panel one
\* update-request before it returns, so that no update-request is left
\* for the next tick by the pass.
C32_FitThenUpdate ==
  FitPass =>
    /\ last.sent = <<"update-request">>
    /\ last.threw = Returned

\* C33: attachChild(index, w) inserts at the index a sizer for w with size
\* 0 and with the average of the sizes of the sizers before, without its
\* fraction, as its hint (0 when there were none), and leaves the sizers
\* that were there as they were.
C33_InsertedSizer ==
  (last.op = "attachChild" /\ last.parent) =>
    LET k == last.arg[1] + 1
        n == Len(last.children)
    IN  /\ Len(_sizers) = n + 1
        /\ _sizers[k].size = Zero
        /\ _sizers[k].sizeHint[2] = 1
        /\ n = 0 => _sizers[k] = createSizer(last.arg[2], averageSize(<<>>))

\* C35: every update pass runs with the fixed space of the present panes
\* and their visibility, and none runs while a fit-request is waiting.
C35_UpdateAfterFit ==
  UpdatePass =>
    /\ fixedSpace = HandleSpace
    /\ \A k \in 1..Len(last.posted) : last.posted[k] # "fit-request"

\* The operations that read the layout's sizers or handles.
ReadsSizers ==
  \/ last.parent /\ last.op \in ChildOps \cup {"moveHandle"}
  \/ FitPass
  \/ UpdatePass

\* C39: the sizer sequence that setSizes writes and sizes() reads is the
\* one the child operations, moveHandle and the passes use: it has a sizer
\* for every pane, and each of those operations finds it.
C39_OneSizerSequence ==
  /\ parent => Len(_sizers) = Len(children)
  /\ ReadsSizers => last.threw = Returned
====
